---- MODULE Spec2Model ----
(***************************************************************************)
(* Conway's Game of Life (cgol.c): the toroidal board and its turn rule,   *)
(* the delta-based turn history with backward/forward navigation, and the  *)
(* operations that seed and reset the board.                               *)
(***************************************************************************)
EXTENDS Integers, Sequences, FiniteSets, TLC

(***************************************************************************)
(* Bounds of the model.                                                    *)
(***************************************************************************)
\* Largest board dimension (cellsX == cellsY) that is explored.
MaxDim == 5
\* Largest number of living cells a board is seeded with.
MaxSeed == 3
\* ApplyTurn is explored while the board's turn counter is below MaxTurns.
MaxTurns == 3
\* Largest value of an unsigned int.  The C type has 32 bits; the model keeps
\* the modular arithmetic and scales the width down so that the wrap-around
\* values stay inside the integers the model checker can represent.
UINT_MAX == 63

(***************************************************************************)
(* Program constants.                                                      *)
(***************************************************************************)
\* cgol.c:50  #define TURN_LIMIT UINT_MAX
TURN_LIMIT == UINT_MAX
\* cgol.c:1372-1373  the command line clamps the cell count to at least 5.
MinDim == 5

\* enum DIRECTIONS, clockwise from TOP.
TOP == 0
TOP_RIGHT == 1
RIGHT == 2
BOTTOM_RIGHT == 3
BOTTOM == 4
BOTTOM_LEFT == 5
LEFT == 6
TOP_LEFT == 7

\* enum INFOPANELSTATES, the states stored in a history record.
STABLE == -1
DEAD == 0
BORN == 1

VARIABLES
    cellsX,       \* playBoard.cellsX
    cellsY,       \* playBoard.cellsY
    cells,        \* playBoard.cells: index -> [isLiving, cellChanged, cellX, cellY]
    livingCells,  \* playBoard.livingCells (unsigned int)
    turns,        \* playBoard.turns (unsigned int)
    isDirty,      \* playBoard.isDirty
    gameHistory,  \* gameHistoryGame: [turns, currentTurn, turnData]
    lastOp,       \* the operation that produced this state
    lastRet,      \* its return value (TRUE for the void operations)
    probe,        \* the last neighbour lookup: [cell, direction, limitX, limitY, offset]
    randomLeft,   \* inside initRandomBoard: the cells its loop still has to bring alive
    rt,           \* the record-and-navigate scenario: [phase, rounds, live, back, fwd]
    session,      \* main's loop flags and gameOptions: [doRecordHistory, isInHistory,
                  \* historyCreated, doPause, doRender, doPaint, colorThreshold]
    image         \* the last dropped image: [w, h, bpp, dark], the pixel offsets that
                  \* were read from it and the cells that were alive before it

boardVars == <<cellsX, cellsY, cells, livingCells, turns, isDirty>>
vars == <<cellsX, cellsY, cells, livingCells, turns, isDirty, gameHistory,
          lastOp, lastRet, probe, randomLeft, rt, session, image>>

\* The variables that the board and ledger operations never touch.
scenarioVars == <<rt, session, image>>

\* Arithmetic of the C type unsigned int.
UInt(n) == n % (UINT_MAX + 1)

\* playBoard.cellCount (cgol.c:1601).
cellCount == cellsX * cellsY

\* All subsets of S (a set of integers) with exactly k elements.
RECURSIVE KSubsets(_, _)
KSubsets(S, k) ==
    IF k = 0 THEN {{}}
    ELSE UNION {{T \cup {x} : T \in KSubsets({y \in S : y < x}, k - 1)} : x \in S}

SubsetsUpTo(S, k) == UNION {KSubsets(S, j) : j \in 0..k}

\* The set of indexes of the living cells of a cell array.
AliveSet(cs) == {i \in DOMAIN cs : cs[i].isLiving}

(***************************************************************************)
(* main: initialisation of the board cells (cgol.c:1632-1653).  The cell   *)
(* for grid position (x, y) is stored at offset x + y * cellsY.            *)
(***************************************************************************)
CellAt(nx, ny, offset) ==
    LET p == CHOOSE q \in (0..nx - 1) \X (0..ny - 1) : q[1] + (q[2] * ny) = offset
    IN [isLiving |-> FALSE, cellChanged |-> FALSE, cellX |-> p[1], cellY |-> p[2]]

InitCells(nx, ny) == [offset \in 0..(nx * ny) - 1 |-> CellAt(nx, ny, offset)]

(***************************************************************************)
(* get_neighbour_living (cgol.c:211-278).                                  *)
(***************************************************************************)
\* The x shift of a direction (the switch at cgol.c:221-252).
calcX(direction) == <<0, 1, 1, 1, 0, -1, -1, -1>>[direction + 1]

\* The y shift of a direction (the switch at cgol.c:221-252).
calcY(direction) == <<-1, -1, 0, 1, 1, 1, 0, -1>>[direction + 1]

\* Mutation of limitX: the low edge does not wrap, the lookup stays on the cell.
limitX_nowrap(gameCell, direction) ==
    IF calcX(direction) = -1
    THEN (IF gameCell.cellX = 0 THEN 0 ELSE gameCell.cellX - 1)
    ELSE IF calcX(direction) = 1
    THEN (IF gameCell.cellX = cellsX - 1 THEN 0 ELSE gameCell.cellX + 1)
    ELSE gameCell.cellX

\* cgol.c:254-259
limitX(gameCell, direction) ==
    IF calcX(direction) = -1
    THEN (IF gameCell.cellX = 0 THEN cellsX - 1 ELSE gameCell.cellX - 1)
    ELSE IF calcX(direction) = 1
    THEN (IF gameCell.cellX = cellsX - 1 THEN 0 ELSE gameCell.cellX + 1)
    ELSE gameCell.cellX

\* Mutation of limitY: the low edge does not wrap, the lookup stays on the cell.
limitY_nowrap(gameCell, direction) ==
    IF calcY(direction) = -1
    THEN (IF gameCell.cellY = 0 THEN 0 ELSE gameCell.cellY - 1)
    ELSE IF calcY(direction) = 1
    THEN (IF gameCell.cellY = cellsY - 1 THEN 0 ELSE gameCell.cellY + 1)
    ELSE gameCell.cellY

\* cgol.c:261-266
limitY(gameCell, direction) ==
    IF calcY(direction) = -1
    THEN (IF gameCell.cellY = 0 THEN cellsY - 1 ELSE gameCell.cellY - 1)
    ELSE IF calcY(direction) = 1
    THEN (IF gameCell.cellY = cellsY - 1 THEN 0 ELSE gameCell.cellY + 1)
    ELSE gameCell.cellY

\* The array offset that is read (cgol.c:277).
neighbourOffset(gameCell, direction) ==
    limitX(gameCell, direction) + (limitY(gameCell, direction) * cellsY)

\* The isLiving status of the cell in the given direction (cgol.c:221-277).
get_neighbour_living(cs, gameCell, direction) ==
    /\ direction \in 0..7
    /\ cs[neighbourOffset(gameCell, direction)].isLiving

(***************************************************************************)
(* applyTurn (cgol.c:544-609).                                             *)
(***************************************************************************)
\* cgol.c:554-562: the number of directions with a living neighbour.
livingNeighbours(cs, i) ==
    Cardinality({j \in 0..7 : get_neighbour_living(cs, cs[i], j)})

\* Mutation of deathInRound: a cell with four living neighbours survives.
deathInRound_gt4(cs, i) ==
    cs[i].isLiving /\ LET n == livingNeighbours(cs, i) IN (n < 2 \/ n > 4)

\* cgol.c:564-571: pass 1, does cell i die in this turn?
deathInRound(cs, i) ==
    cs[i].isLiving /\ LET n == livingNeighbours(cs, i) IN (n < 2 \/ n > 3)

\* Mutation of bornInRound: two living neighbours are enough for a birth.
bornInRound_two(cs, i) ==
    (~cs[i].isLiving) /\ livingNeighbours(cs, i) >= 2

\* cgol.c:572-575: pass 1, is cell i born in this turn?
bornInRound(cs, i) ==
    (~cs[i].isLiving) /\ livingNeighbours(cs, i) = 3

\* Mutation of committedCells: a cell that does not flip keeps its
\* cellChanged flag.
committedCells_keepFlags(cs) ==
    [i \in DOMAIN cs |->
        IF deathInRound(cs, i)
        THEN [cs[i] EXCEPT !.isLiving = FALSE, !.cellChanged = TRUE]
        ELSE IF bornInRound(cs, i)
        THEN [cs[i] EXCEPT !.isLiving = TRUE, !.cellChanged = TRUE]
        ELSE cs[i]]

\* cgol.c:589-603: pass 2, the cell array after the commit.  Both passes
\* read the tags computed from the cell array as it was before the call.
committedCells(cs) ==
    [i \in DOMAIN cs |->
        IF deathInRound(cs, i)
        THEN [cs[i] EXCEPT !.isLiving = FALSE, !.cellChanged = TRUE]
        ELSE IF bornInRound(cs, i)
        THEN [cs[i] EXCEPT !.isLiving = TRUE, !.cellChanged = TRUE]
        ELSE [cs[i] EXCEPT !.cellChanged = FALSE]]

\* The cells that pass 2 committed as dying (cgol.c:590-594) and as born
\* (cgol.c:595-599): they are the cells it marked as changed.
committedDeaths(committed) ==
    {i \in DOMAIN committed : committed[i].cellChanged /\ ~committed[i].isLiving}

committedBirths(committed) ==
    {i \in DOMAIN committed : committed[i].cellChanged /\ committed[i].isLiving}

\* Mutation of committedLivingCells: the deaths are not counted.
committedLivingCells_births(living, committed) ==
    UInt(living + Cardinality(committedBirths(committed)))

\* cgol.c:593 and 598: livingCells after one unsigned decrement per death
\* and one unsigned increment per birth.
committedLivingCells(living, committed) ==
    UInt(living - Cardinality(committedDeaths(committed))
                + Cardinality(committedBirths(committed)))

\* Mutation of committedDirty: only a death marks the board as dirty.
committedDirty_deaths(committed) ==
    \E i \in DOMAIN committed : committed[i].cellChanged /\ ~committed[i].isLiving

\* cgol.c:545, 594 and 599
committedDirty(committed) ==
    \E i \in DOMAIN committed : committed[i].cellChanged

\* Mutation of nextTurns: a history-replay step counts as a turn too.
nextTurns_always(t, isInHistory) == UInt(t + 1)

\* cgol.c:605-608: ++turns is an unsigned increment and wraps at UINT_MAX.
nextTurns(t, isInHistory) ==
    IF isInHistory THEN t
    ELSE IF UInt(t + 1) > TURN_LIMIT THEN 0 ELSE UInt(t + 1)

applyTurn(isInHistory) ==
    /\ cells' = committedCells(cells)
    /\ livingCells' = committedLivingCells(livingCells, cells')
    /\ isDirty' = committedDirty(cells')
    /\ turns' = nextTurns(turns, isInHistory)
    /\ lastOp' = "applyTurn"
    /\ lastRet' = TRUE
    /\ UNCHANGED <<cellsX, cellsY, gameHistory, probe, randomLeft>>

(***************************************************************************)
(* resetPlayboard (cgol.c:949-960).                                        *)
(***************************************************************************)
\* A reset that forgets the cellChanged flags.
resetCells_keepChanged(cs) ==
    [i \in DOMAIN cs |-> [cs[i] EXCEPT !.isLiving = FALSE]]

resetCells(cs) ==
    [i \in DOMAIN cs |-> [cs[i] EXCEPT !.isLiving = FALSE, !.cellChanged = FALSE]]

resetPlayboard ==
    /\ cells' = resetCells(cells)
    /\ turns' = 0
    /\ livingCells' = 0
    /\ lastOp' = "resetPlayboard"
    /\ lastRet' = TRUE
    /\ UNCHANGED <<cellsX, cellsY, isDirty, gameHistory, probe, randomLeft>>

(***************************************************************************)
(* initRandomBoard (cgol.c:614-644).                                       *)
(***************************************************************************)
\* cgol.c:1469-1474: options.maximumFitCellsForRandom is the cell count
\* scaled by a fraction in 0..1, and 0.4 of the cell count when that is
\* below 10.
FitCellsOptions(count) ==
    {IF m < 10 THEN (count * 4) \div 10 ELSE m : m \in 0..count}

\* cgol.c:620: the number of cells to bring alive, for a draw of rand() % 75.
targetCount(fit, r) == (fit * (r + 25)) \div 100

\* The pairs <<cell count, target count>> over every board dimension,
\* every option value and every draw.
TargetTable ==
    UNION {{<<n * n, targetCount(fit, r)>> : fit \in FitCellsOptions(n * n), r \in 0..74} :
           n \in MinDim..MaxDim}

\* The target counts, up to MaxSeed, of the current board.
TargetCounts == {t \in 0..MaxSeed : <<cellCount, t>> \in TargetTable}

\* Every target count of the current board.
AllTargetCounts == {p[2] : p \in {q \in TargetTable : q[1] = cellCount}}

\* A draw that misses the last two cells of the board.
drawRange_short == 0..(cellCount - 3)

\* cgol.c:630: the indexes the random draw can yield.
drawRange == 0..(cellCount - 2)

\* cgol.c:614-625: the call resets the board and computes the number of
\* cells that the loop has to bring alive, one of `targets`.
initRandomBoard_call(targets) ==
    /\ randomLeft = 0
    /\ \E target \in targets : randomLeft' = target
    /\ cells' = resetCells(cells)
    /\ turns' = 0
    /\ livingCells' = 0
    /\ lastOp' = "initRandomBoard"
    /\ lastRet' = TRUE
    /\ UNCHANGED <<cellsX, cellsY, isDirty, gameHistory, probe>>

initRandomBoard_begin == initRandomBoard_call(TargetCounts)

\* A loop in which a draw of a living cell uses up one of the cells to
\* bring alive.
initRandomBoard_draw_countHits ==
    /\ randomLeft > 0
    /\ \E i \in drawRange :
          /\ cells' = [cells EXCEPT ![i].isLiving = TRUE, ![i].cellChanged = TRUE]
          /\ randomLeft' = randomLeft - 1
          /\ livingCells' = IF cells[i].isLiving THEN livingCells ELSE UInt(livingCells + 1)
    /\ lastOp' = "initRandomBoard"
    /\ lastRet' = TRUE
    /\ UNCHANGED <<cellsX, cellsY, turns, isDirty, gameHistory, probe>>

\* cgol.c:629-643: one iteration of the rejection-sampling loop, for the
\* draw i = rand() % (cellCount - 1).
initRandomBoard_draw ==
    /\ randomLeft > 0
    /\ \E i \in drawRange :
          IF ~cells[i].isLiving
          THEN /\ cells' = [cells EXCEPT ![i].isLiving = TRUE, ![i].cellChanged = TRUE]
               /\ randomLeft' = randomLeft - 1
               /\ livingCells' = UInt(livingCells + 1)
          ELSE UNCHANGED <<cells, randomLeft, livingCells>>
    /\ lastOp' = "initRandomBoard"
    /\ lastRet' = TRUE
    /\ UNCHANGED <<cellsX, cellsY, turns, isDirty, gameHistory, probe>>

(***************************************************************************)
(* clearHistory (cgol.c:993-1009).  turnData == NULL is the empty          *)
(* sequence.                                                               *)
(***************************************************************************)
\* The empty ledger: struct gameHistoryGame gameHistory = {0, 0, NULL} (cgol.c:1627).
EmptyHistory == [turns |-> 0, currentTurn |-> 0, turnData |-> <<>>]

\* cgol.c:994-996: the return value.
clearHistoryResult(h) == h.turnData # <<>>

\* Mutation of clearedHistory: the cursor is not reset.
clearedHistory_keepCursor(h) ==
    IF h.turnData = <<>> THEN h ELSE [EmptyHistory EXCEPT !.currentTurn = h.currentTurn]

\* cgol.c:998-1006: the ledger after the call.
clearedHistory(h) == IF h.turnData = <<>> THEN h ELSE EmptyHistory

clearHistory ==
    /\ gameHistory' = clearedHistory(gameHistory)
    /\ lastOp' = "clearHistory"
    /\ lastRet' = clearHistoryResult(gameHistory)
    /\ UNCHANGED <<cellsX, cellsY, cells, livingCells, turns, isDirty, probe, randomLeft>>

(***************************************************************************)
(* addHistory (cgol.c:1014-1071).                                          *)
(***************************************************************************)
\* Mutation of addHistoryFails: the guard also refuses equal counts.
addHistoryFails_geq(h, boardTurns) == h.turns >= boardTurns

\* Mutation of addHistoryFails: the guard tolerates one record too many.
addHistoryFails_late(h, boardTurns) == h.turns > boardTurns + 1

\* cgol.c:1015-1017: the ordering guard.
addHistoryFails(h, boardTurns) == h.turns > boardTurns

\* Mutation of capacityCleared: the ledger at its capacity is kept.
capacityCleared_keep(h) == h

\* cgol.c:1019-1021: a ledger at its capacity is cleared first.
capacityCleared(h) == IF h.turns = TURN_LIMIT THEN clearedHistory(h) ELSE h

\* Mutation of recordedCells: every cell gets an entry.
recordedCells_all(cs) == [k \in 1..Cardinality(DOMAIN cs) |-> k - 1]

\* cgol.c:1042-1068: the cells that get an entry, in ascending array order.
recordedCells(cs) ==
    SelectSeq([k \in 1..Cardinality(DOMAIN cs) |-> k - 1],
              LAMBDA i : cs[i].cellChanged \/ cs[i].isLiving)

\* Mutation of recordedState: a cell that was born is stored as STABLE.
recordedState_noBorn(c) ==
    IF c.cellChanged /\ ~c.isLiving THEN DEAD ELSE STABLE

\* cgol.c:1049-1055 and 1062: the state stored for a cell.
recordedState(c) ==
    IF c.cellChanged THEN (IF c.isLiving THEN BORN ELSE DEAD) ELSE STABLE

\* Mutation of recordedIndex: the coordinates are swapped.
recordedIndex_transposed(c) == c.cellY + (c.cellX * cellsX)

\* cgol.c:1047 and 1063: the index stored for a cell.
recordedIndex(c) == c.cellX + (c.cellY * cellsX)

\* cgol.c:1031-1068: the record that is built from the board.
turnRecord(cs) ==
    LET entries == recordedCells(cs)
        state == [k \in 1..Len(entries) |-> recordedState(cs[entries[k]])]
    IN [records |-> Len(entries),
        countBorn |-> Cardinality({k \in 1..Len(entries) : state[k] = BORN}),
        countDeath |-> Cardinality({k \in 1..Len(entries) : state[k] = DEAD}),
        countStable |-> Cardinality({k \in 1..Len(entries) : state[k] = STABLE}),
        state |-> state,
        index |-> [k \in 1..Len(entries) |-> recordedIndex(cs[entries[k]])]]

\* cgol.c:1023-1039: the record is stored at position `turns`, the cursor
\* is set to it and the count is incremented.
appendedHistory(h, rec) ==
    [turns |-> UInt(h.turns + 1),
     currentTurn |-> h.turns,
     turnData |-> Append(h.turnData, rec)]

\* cgol.c:1014-1071: the ledger after the call.
recordedHistory(h, boardTurns, cs) ==
    IF addHistoryFails(h, boardTurns) THEN h
    ELSE appendedHistory(capacityCleared(h), turnRecord(cs))

addHistory ==
    /\ gameHistory' = recordedHistory(gameHistory, turns, cells)
    /\ lastOp' = "addHistory"
    /\ lastRet' = ~addHistoryFails(gameHistory, turns)
    /\ UNCHANGED <<cellsX, cellsY, cells, livingCells, turns, isDirty, probe, randomLeft>>

(***************************************************************************)
(* historyDisplayTurn (cgol.c:1111-1156).                                  *)
(***************************************************************************)
\* Mutation of displayedCell: a DEAD entry is shown as a living cell.
displayedCell_deadAlive(c, state) ==
    IF state = STABLE THEN [c EXCEPT !.isLiving = TRUE, !.cellChanged = FALSE]
    ELSE [c EXCEPT !.isLiving = TRUE, !.cellChanged = TRUE]

\* cgol.c:1130-1151: the cell after one entry is applied to it.
displayedCell(c, state) ==
    IF state = STABLE THEN [c EXCEPT !.isLiving = TRUE, !.cellChanged = FALSE]
    ELSE IF state = DEAD THEN [c EXCEPT !.isLiving = FALSE, !.cellChanged = TRUE]
    ELSE IF state = BORN THEN [c EXCEPT !.isLiving = TRUE, !.cellChanged = TRUE]
    ELSE c

\* cgol.c:1127-1153: the entries 1..k of the record applied in order.
RECURSIVE displayedEntries(_, _, _)
displayedEntries(cs, rec, k) ==
    IF k = 0 THEN cs
    ELSE LET before == displayedEntries(cs, rec, k - 1)
         IN [before EXCEPT ![rec.index[k]] = displayedCell(before[rec.index[k]], rec.state[k])]

\* cgol.c:1113-1153: the board is cleared and the record at the cursor is
\* written onto it; turns and livingCells are not assigned.
displayedCells(h, cs) ==
    LET rec == h.turnData[h.currentTurn + 1]
    IN displayedEntries(resetCells(cs), rec, rec.records)

(***************************************************************************)
(* historyBackwards (cgol.c:1076-1088) and historyForwards                 *)
(* (cgol.c:1093-1106).                                                     *)
(***************************************************************************)
\* cgol.c:1077-1079
historyBackwardsFails(h) == h.currentTurn = 0 \/ h.turns = 0

\* Mutation of previousTurn: the cursor is not moved.
previousTurn_stay(h) == h.currentTurn

\* cgol.c:1081: --gameHistory->currentTurn
previousTurn(h) == UInt(h.currentTurn - 1)

historyBackwards ==
    /\ IF historyBackwardsFails(gameHistory)
       THEN /\ lastRet' = FALSE
            /\ UNCHANGED <<gameHistory, cells>>
       ELSE /\ lastRet' = TRUE
            /\ gameHistory' = [gameHistory EXCEPT !.currentTurn = previousTurn(gameHistory)]
            /\ cells' = displayedCells(gameHistory', cells)
    /\ lastOp' = "historyBackwards"
    /\ UNCHANGED <<cellsX, cellsY, livingCells, turns, isDirty, probe, randomLeft>>

\* Mutation of historyForwardsFails: the board's turn counter is not compared.
historyForwardsFails_noTurns(h, boardTurns) ==
    h.turns = 0 \/ h.currentTurn = UInt(h.turns - 1)

\* cgol.c:1095-1097
historyForwardsFails(h, boardTurns) ==
    h.currentTurn = boardTurns \/ h.turns = 0 \/ h.currentTurn = UInt(h.turns - 1)

\* cgol.c:1099: ++gameHistory->currentTurn
followingTurn(h) == UInt(h.currentTurn + 1)

historyForwards ==
    /\ IF historyForwardsFails(gameHistory, turns)
       THEN /\ lastRet' = FALSE
            /\ UNCHANGED <<gameHistory, cells>>
       ELSE /\ lastRet' = TRUE
            /\ gameHistory' = [gameHistory EXCEPT !.currentTurn = followingTurn(gameHistory)]
            /\ cells' = displayedCells(gameHistory', cells)
    /\ lastOp' = "historyForwards"
    /\ UNCHANGED <<cellsX, cellsY, livingCells, turns, isDirty, probe, randomLeft>>

(***************************************************************************)
(* The board engine: every board that painting or seeding at most MaxSeed  *)
(* cells produces after construction, driven by applyTurn, resetPlayboard  *)
(* and initRandomBoard.                                                    *)
(***************************************************************************)
\* cgol.c:1311: (255+255+255) * 0.85
DefaultThreshold == 650

\* main's flags before the loop (cgol.c:1671-1687).
NoSession ==
    [doRecordHistory |-> FALSE, isInHistory |-> FALSE, historyCreated |-> FALSE,
     doPause |-> TRUE, doRender |-> TRUE, doPaint |-> FALSE,
     colorThreshold |-> DefaultThreshold]

\* No image has been dropped.
NoImage == [w |-> 0, h |-> 0, bpp |-> 0, dark |-> {}, read |-> {}, replaced |-> {}]

NoScenario == [phase |-> "off", rounds |-> 0, live |-> <<>>, back |-> 0, fwd |-> 0]

NoProbe == [cell |-> 0, direction |-> 0, limitX |-> 0, limitY |-> 0, offset |-> 0]

\* paintCell (cgol.c:666-669) brings the clicked dead cell alive and counts
\* it; `painted` is the set of the clicked cells.
paintedCells(cs, painted) ==
    [i \in DOMAIN cs |-> IF i \in painted THEN [cs[i] EXCEPT !.isLiving = TRUE] ELSE cs[i]]

\* The offsets of the cell (0, 0) and its eight wrapped neighbours on the
\* n x n board: the cells with both coordinates in {n - 1, 0, 1}.
CornerBlock(n) ==
    {x + (y * n) : x \in {n - 1, 0, 1}, y \in {n - 1, 0, 1}}

\* The sets of cells that are painted before the first turn: at most
\* MaxSeed cells anywhere on the board, or any cells of the corner block.
PaintedSets(n) ==
    SubsetsUpTo(0..(n * n) - 1, MaxSeed) \cup SUBSET CornerBlock(n)

\* The board of dimension n x n after construction (cgol.c:1601-1653) and
\* painting of the cells of `painted`.
InitBoard(n, painted) ==
    /\ cellsX = n
    /\ cellsY = n
    /\ cells = paintedCells(InitCells(n, n), painted)
    /\ livingCells = Cardinality(painted)
    /\ turns = 0
    /\ isDirty = TRUE

Init ==
    /\ \E painted \in PaintedSets(MinDim) : InitBoard(MinDim, painted)
    /\ gameHistory = EmptyHistory
    /\ lastOp = "init"
    /\ lastRet = TRUE
    /\ probe = NoProbe
    /\ randomLeft = 0
    /\ rt = NoScenario
    /\ session = NoSession
    /\ image = NoImage

\* The program is single-threaded: no other operation runs while
\* initRandomBoard is in its loop.
Idle == randomLeft = 0

Step == Idle /\ turns < MaxTurns /\ applyTurn(FALSE) /\ UNCHANGED scenarioVars

Reset == Idle /\ resetPlayboard /\ UNCHANGED scenarioVars

SeedBegin == initRandomBoard_begin /\ UNCHANGED scenarioVars

SeedDraw == initRandomBoard_draw /\ UNCHANGED scenarioVars

Next == Step \/ Reset \/ SeedBegin \/ SeedDraw

Spec == Init /\ [][Next]_vars

(***************************************************************************)
(* C1-C2: the turn rule and the living-cell count.                         *)
(***************************************************************************)
\* The coordinate c moved by d on a ring of n positions.
Wrapped(c, d, n) == (c + d + n) % n

\* The eight coordinate shifts of the Moore neighbourhood.
Shifts == {<<dx, dy>> \in {-1, 0, 1} \X {-1, 0, 1} : <<dx, dy>> # <<0, 0>>}

\* The cell of the array that lies at grid position (x, y).
CellAtPosition(cs, x, y) ==
    CHOOSE i \in DOMAIN cs : cs[i].cellX = x /\ cs[i].cellY = y

\* The number of living cells among the eight wrapped neighbours of cell i.
TorusNeighbours(cs, i) ==
    Cardinality({s \in Shifts :
        cs[CellAtPosition(cs, Wrapped(cs[i].cellX, s[1], cellsX),
                              Wrapped(cs[i].cellY, s[2], cellsY))].isLiving})

\* Conway's rule for cell i of the board cs.
ConwayAlive(cs, i) ==
    \/ cs[i].isLiving /\ TorusNeighbours(cs, i) \in {2, 3}
    \/ (~cs[i].isLiving) /\ TorusNeighbours(cs, i) = 3

\* C1: every applyTurn yields the Conway successor on the torus: a cell is
\* alive afterwards iff it was alive with 2 or 3 living neighbours or dead
\* with exactly 3, all counts taken on the board before the step.
C1_ConwaySuccessor ==
    [][lastOp' = "applyTurn" =>
          \A i \in DOMAIN cells : cells'[i].isLiving = ConwayAlive(cells, i)]_vars

\* A step has produced a board on which a birth, a death by isolation or
\* overcrowding and a survival are all about to happen.
C1_Witness ==
    /\ lastOp = "applyTurn"
    /\ \E i \in DOMAIN cells : cells[i].isLiving /\ TorusNeighbours(cells, i) > 3
    /\ \E i \in DOMAIN cells : cells[i].isLiving /\ TorusNeighbours(cells, i) < 2
    /\ \E i \in DOMAIN cells : cells[i].isLiving /\ TorusNeighbours(cells, i) \in {2, 3}
    /\ \E i \in DOMAIN cells : (~cells[i].isLiving) /\ TorusNeighbours(cells, i) = 3
    /\ \E i \in DOMAIN cells : cells[i].cellChanged /\ cells[i].isLiving
    /\ \E i \in DOMAIN cells : cells[i].cellChanged /\ ~cells[i].isLiving

\* C2: after any sequence of applyTurn, resetPlayboard and initRandomBoard
\* calls livingCells equals the number of cells with isLiving true.
C2_LivingCellsCount == livingCells = Cardinality(AliveSet(cells))

\* Two steps have been applied, the second with deaths, and the board holds
\* more living cells than it was seeded with.
C2_Witness ==
    /\ lastOp = "applyTurn"
    /\ turns = 2
    /\ livingCells > MaxSeed
    /\ \E i \in DOMAIN cells : cells[i].cellChanged /\ ~cells[i].isLiving

(***************************************************************************)
(* Neighbour lookup as a function of the board dimension, the cell and the *)
(* direction: boards of every dimension from 1 x 1 with at most one living *)
(* cell.                                                                   *)
(***************************************************************************)
InitLookup ==
    /\ \E n \in 1..MaxDim :
          \E painted \in SubsetsUpTo(0..(n * n) - 1, 1) : InitBoard(n, painted)
    /\ gameHistory = EmptyHistory
    /\ lastOp = "init"
    /\ lastRet = TRUE
    /\ probe = NoProbe
    /\ randomLeft = 0
    /\ rt = NoScenario
    /\ session = NoSession
    /\ image = NoImage

\* One call get_neighbour_living(&cells[i], gameBoard, direction).
Lookup ==
    /\ \E i \in DOMAIN cells, direction \in 0..7 :
          /\ probe' = [cell |-> i, direction |-> direction,
                       limitX |-> limitX(cells[i], direction),
                       limitY |-> limitY(cells[i], direction),
                       offset |-> neighbourOffset(cells[i], direction)]
          /\ lastRet' = get_neighbour_living(cells, cells[i], direction)
    /\ lastOp' = "get_neighbour_living"
    /\ UNCHANGED <<cellsX, cellsY, cells, livingCells, turns, isDirty, gameHistory, randomLeft, rt, session, image>>

NextLookup == Lookup

SpecLookup == InitLookup /\ [][NextLookup]_vars

\* The coordinate shift <<dx, dy>> of a compass direction, y growing downwards.
CompassShift(direction) ==
    CASE direction = TOP -> <<0, -1>>
      [] direction = TOP_RIGHT -> <<1, -1>>
      [] direction = RIGHT -> <<1, 0>>
      [] direction = BOTTOM_RIGHT -> <<1, 1>>
      [] direction = BOTTOM -> <<0, 1>>
      [] direction = BOTTOM_LEFT -> <<-1, 1>>
      [] direction = LEFT -> <<-1, 0>>
      [] direction = TOP_LEFT -> <<-1, -1>>

\* A coordinate that steps below 0 becomes dimension - 1, one that steps
\* above dimension - 1 becomes 0.
Toroidal(c, dimension) ==
    IF c < 0 THEN dimension - 1 ELSE IF c > dimension - 1 THEN 0 ELSE c

\* C5: every neighbour lookup reads a cell inside the board, the one whose
\* coordinates are the toroidally wrapped shifted coordinates; the TOP
\* neighbour of cell (0, 0) is (0, N - 1) and its LEFT neighbour (N - 1, 0).
C5_ToroidalWrap ==
    lastOp = "get_neighbour_living" =>
        LET from == cells[probe.cell]
            shift == CompassShift(probe.direction)
        IN /\ probe.offset \in 0..(cellCount - 1)
           /\ cells[probe.offset].cellX = Toroidal(from.cellX + shift[1], cellsX)
           /\ cells[probe.offset].cellY = Toroidal(from.cellY + shift[2], cellsY)
           /\ lastRet = cells[probe.offset].isLiving
           /\ (from.cellX = 0 /\ from.cellY = 0 /\ probe.direction = TOP) =>
                  (cells[probe.offset].cellX = 0 /\ cells[probe.offset].cellY = cellsY - 1)
           /\ (from.cellX = 0 /\ from.cellY = 0 /\ probe.direction = LEFT) =>
                  (cells[probe.offset].cellX = cellsX - 1 /\ cells[probe.offset].cellY = 0)

\* The TOP_LEFT lookup from cell (0, 0) of a 5 x 5 board wraps in both
\* axes and finds the living bottom-right cell.
C5_Witness ==
    /\ lastOp = "get_neighbour_living"
    /\ cellsX = 5
    /\ probe.cell = 0
    /\ probe.direction = TOP_LEFT
    /\ probe.offset = 24
    /\ lastRet = TRUE

(***************************************************************************)
(* The classic fixtures: a horizontal blinker and a 2 x 2 block painted at *)
(* every position of every board dimension, stepped until the turn counter *)
(* has gone round.                                                         *)
(***************************************************************************)
\* The offset of grid position (x, y) after wrapping, on the n x n board.
At(x, y, n) == ((x + n) % n) + (((y + n) % n) * n)

\* Three horizontally adjacent cells with centre (x, y).
Horizontal(x, y, n) == {At(x - 1, y, n), At(x, y, n), At(x + 1, y, n)}

\* Three vertically adjacent cells with centre (x, y).
Vertical(x, y, n) == {At(x, y - 1, n), At(x, y, n), At(x, y + 1, n)}

\* The 2 x 2 block with top-left cell (x, y).
Block(x, y, n) == {At(x, y, n), At(x + 1, y, n), At(x, y + 1, n), At(x + 1, y + 1, n)}

InitFixtures ==
    /\ \E n \in MinDim..MaxDim :
          \E x \in 0..n - 1, y \in 0..n - 1 :
             \E painted \in {Horizontal(x, y, n), Block(x, y, n)} : InitBoard(n, painted)
    /\ gameHistory = EmptyHistory
    /\ lastOp = "init"
    /\ lastRet = TRUE
    /\ probe = NoProbe
    /\ randomLeft = 0
    /\ rt = NoScenario
    /\ session = NoSession
    /\ image = NoImage

FixtureStep == applyTurn(FALSE) /\ UNCHANGED scenarioVars

NextFixtures == FixtureStep

SpecFixtures == InitFixtures /\ [][NextFixtures]_vars

Positions == (0..cellsX - 1) \X (0..cellsY - 1)

\* C6: a board whose only living cells are three horizontally adjacent
\* cells has, after one applyTurn, exactly the three vertically adjacent
\* cells through the same centre alive, and the other way round, so that
\* two steps restore the alive set, at every step.
C6_Blinker ==
    [][lastOp' = "applyTurn" =>
          \A p \in Positions :
             /\ AliveSet(cells) = Horizontal(p[1], p[2], cellsX)
                    => AliveSet(cells') = Vertical(p[1], p[2], cellsX)
             /\ AliveSet(cells) = Vertical(p[1], p[2], cellsX)
                    => AliveSet(cells') = Horizontal(p[1], p[2], cellsX)]_vars

\* After four steps the blinker that was painted across the left and right
\* edge of the top row is horizontal again.
C6_Witness ==
    /\ lastOp = "applyTurn"
    /\ turns = 4
    /\ AliveSet(cells) = Horizontal(0, 0, cellsX)

\* C7: a board whose only living cells form a 2 x 2 block is unchanged by
\* applyTurn: the alive set stays, isDirty is false and livingCells is 4.
C7_StillLife ==
    [][(lastOp' = "applyTurn" /\ livingCells = 4 /\
        \E p \in Positions : AliveSet(cells) = Block(p[1], p[2], cellsX)) =>
          /\ AliveSet(cells') = AliveSet(cells)
          /\ isDirty' = FALSE
          /\ livingCells' = 4]_vars

\* The block across the corner of the board after ten steps.
C7_Witness ==
    /\ lastOp = "applyTurn"
    /\ turns = 10
    /\ isDirty = FALSE
    /\ livingCells = 4
    /\ AliveSet(cells) = Block(cellsX - 1, cellsY - 1, cellsX)

(***************************************************************************)
(* The history ledger: boards painted on the first row, driven by          *)
(* applyTurn and the ledger operations in any order.                       *)
(***************************************************************************)
\* The sets of cells painted among the first MaxSeed + 1 cells of row 0.
RowPaintedSets == SUBSET (0..MaxSeed)

InitHistory ==
    /\ \E painted \in RowPaintedSets : InitBoard(MinDim, painted)
    /\ gameHistory = EmptyHistory
    /\ lastOp = "init"
    /\ lastRet = TRUE
    /\ probe = NoProbe
    /\ randomLeft = 0
    /\ rt = NoScenario
    /\ session = NoSession
    /\ image = NoImage

HistoryStep == turns < MaxTurns /\ applyTurn(FALSE) /\ UNCHANGED scenarioVars

Record == addHistory /\ UNCHANGED scenarioVars

Backward == historyBackwards /\ UNCHANGED scenarioVars

Forward == historyForwards /\ UNCHANGED scenarioVars

Clear == clearHistory /\ UNCHANGED scenarioVars

NextHistory == HistoryStep \/ Record \/ Backward \/ Forward \/ Clear

SpecHistory == InitHistory /\ [][NextHistory]_vars

\* The record at the ledger's cursor.
CursorRecord(h) == h.turnData[h.currentTurn + 1]

\* The cells a record shows alive: its STABLE and BORN entries.
RecordAlive(rec) == {rec.index[k] : k \in {j \in 1..rec.records : rec.state[j] \in {STABLE, BORN}}}

\* The cells a record shows changed: its DEAD and BORN entries.
RecordChanged(rec) == {rec.index[k] : k \in {j \in 1..rec.records : rec.state[j] \in {DEAD, BORN}}}

\* C3: after every successful historyBackwards or historyForwards,
\* livingCells equals the number of STABLE and BORN entries of the record
\* at the cursor, which is the number of cells alive on the board.
C3_ReplayLivingCells ==
    (lastOp \in {"historyBackwards", "historyForwards"} /\ lastRet)
        => /\ livingCells = CursorRecord(gameHistory).countStable + CursorRecord(gameHistory).countBorn
           /\ livingCells = Cardinality(AliveSet(cells))

C9_RecordGuard ==
    [][lastOp' = "addHistory"
          => /\ (~lastRet') <=> (gameHistory.turns > turns)
             /\ (~lastRet') => (gameHistory' = gameHistory /\ boardVars' = boardVars)]_vars

\* addHistory has been refused on a ledger that holds records of an
\* evolved board, and the ledger still holds them.
C9_Witness ==
    /\ lastOp = "addHistory" /\ ~lastRet
    /\ gameHistory.turns > turns
    /\ turns >= 1
    /\ AliveSet(cells) # {}

\* C10: historyBackwards fails when the cursor is 0 or the ledger is
\* empty, and then the board (every cell's isLiving and cellChanged, turns,
\* livingCells) and the cursor are unchanged; otherwise it moves the
\* cursor back by exactly one, shows that record on the board and returns
\* success.
C10_Backwards ==
    [][lastOp' = "historyBackwards"
          => IF gameHistory.currentTurn = 0 \/ gameHistory.turns = 0
             THEN /\ ~lastRet'
                  /\ boardVars' = boardVars
                  /\ gameHistory' = gameHistory
             ELSE /\ lastRet'
                  /\ gameHistory'.currentTurn = gameHistory.currentTurn - 1
                  /\ gameHistory'.turns = gameHistory.turns
                  /\ gameHistory'.turnData = gameHistory.turnData
                  /\ AliveSet(cells') = RecordAlive(CursorRecord(gameHistory'))
                  /\ {i \in DOMAIN cells' : cells'[i].cellChanged}
                         = RecordChanged(CursorRecord(gameHistory'))]_vars

\* historyBackwards has moved the cursor back onto a record that differs
\* from the board it replaced.
C10_Witness ==
    /\ lastOp = "historyBackwards" /\ lastRet
    /\ gameHistory.turns >= 2
    /\ gameHistory.currentTurn = gameHistory.turns - 2
    /\ CursorRecord(gameHistory) # gameHistory.turnData[gameHistory.turns]
    /\ AliveSet(cells) # {}

(***************************************************************************)
(* The record-and-navigate scenario: the initial turn is recorded          *)
(* (cgol.c:2085-2087), then `rounds` rounds of applyTurn and addHistory    *)
(* (cgol.c:2105-2109), then `rounds` calls of historyBackwards and         *)
(* `rounds` calls of historyForwards.  rt.live keeps the alive set of      *)
(* every turn of the live simulation.                                      *)
(***************************************************************************)
\* The board that is followed up to the ledger's capacity.
LongRunPainted == 0..(MaxSeed - 1)

\* The scenarios: every row board for up to MaxTurns rounds, one board for
\* up to TURN_LIMIT rounds.
Scenarios ==
    (RowPaintedSets \X (0..MaxTurns)) \cup ({LongRunPainted} \X (0..TURN_LIMIT))

InitRoundTrip ==
    /\ \E sc \in Scenarios :
          /\ InitBoard(MinDim, sc[1])
          /\ rt = [phase |-> "initial", rounds |-> sc[2],
                   live |-> <<sc[1]>>, back |-> 0, fwd |-> 0]
    /\ session = NoSession
    /\ image = NoImage
    /\ gameHistory = EmptyHistory
    /\ lastOp = "init"
    /\ lastRet = TRUE
    /\ probe = NoProbe
    /\ randomLeft = 0

\* The phase that follows a recorded turn.
AfterRecord(r) ==
    IF Len(r.live) <= r.rounds THEN "step"
    ELSE IF r.rounds = 0 THEN "done" ELSE "back"

RecordTurn ==
    /\ rt.phase \in {"initial", "record"}
    /\ addHistory
    /\ rt' = [rt EXCEPT !.phase = AfterRecord(rt)]
    /\ UNCHANGED <<session, image>>

LiveStep ==
    /\ rt.phase = "step"
    /\ applyTurn(FALSE)
    /\ rt' = [rt EXCEPT !.phase = "record", !.live = Append(@, AliveSet(cells'))]
    /\ UNCHANGED <<session, image>>

NavigateBackward ==
    /\ rt.phase = "back"
    /\ historyBackwards
    /\ rt' = [rt EXCEPT !.back = @ + 1,
                        !.phase = IF rt.back + 1 = rt.rounds THEN "forward" ELSE "back"]
    /\ UNCHANGED <<session, image>>

NavigateForward ==
    /\ rt.phase = "forward"
    /\ historyForwards
    /\ rt' = [rt EXCEPT !.fwd = @ + 1,
                        !.phase = IF rt.fwd + 1 = rt.rounds THEN "done" ELSE "forward"]
    /\ UNCHANGED <<session, image>>

NextRoundTrip == RecordTurn \/ LiveStep \/ NavigateBackward \/ NavigateForward

SpecRoundTrip == InitRoundTrip /\ [][NextRoundTrip]_vars

\* The round trip of a scenario: the k-th historyBackwards succeeds and
\* shows the alive set of turn rounds - k, the k-th historyForwards
\* succeeds and shows the alive set of turn k.
RoundTrip ==
    /\ lastOp = "historyBackwards"
          => (lastRet /\ AliveSet(cells) = rt.live[rt.rounds - rt.back + 1])
    /\ lastOp = "historyForwards"
          => (lastRet /\ AliveSet(cells) = rt.live[rt.fwd + 1])

\* C4 as stated: the round trip holds for any number of rounds N >= 0.
C4_RoundTripAnyN == RoundTrip

\* C4, amended: the round trip holds for any number of rounds N with
\* 0 <= N < TURN_LIMIT.
C4_RoundTripBelowLimit == rt.rounds < TURN_LIMIT => RoundTrip

\* A scenario of at least two rounds on a board that changes has been
\* navigated back to turn 0 and forward to its last turn.
C4_Witness ==
    /\ rt.phase = "done"
    /\ rt.rounds >= 2
    /\ rt.fwd = rt.rounds
    /\ rt.back = rt.rounds
    /\ rt.live[1] # rt.live[2]
    /\ rt.live[1] # {}
    /\ lastOp = "historyForwards" /\ lastRet

(***************************************************************************)
(* Navigation over a ledger whose board can be reset under it: the board's *)
(* turn counter can then fall below the ledger's record count.             *)
(***************************************************************************)
\* The row boards with at least MaxSeed painted cells.
NavPaintedSets == {S \in RowPaintedSets : Cardinality(S) >= MaxSeed}

InitNavigate ==
    /\ \E painted \in NavPaintedSets : InitBoard(MinDim, painted)
    /\ gameHistory = EmptyHistory
    /\ lastOp = "init"
    /\ lastRet = TRUE
    /\ probe = NoProbe
    /\ randomLeft = 0
    /\ rt = NoScenario
    /\ session = NoSession
    /\ image = NoImage

\* cgol.c:2077: turns are applied and recorded only while livingCells != 0.
NavStep == livingCells # 0 /\ turns < MaxTurns /\ applyTurn(FALSE) /\ UNCHANGED scenarioVars

NavRecord == livingCells # 0 /\ addHistory /\ UNCHANGED scenarioVars

NavBackward == historyBackwards /\ UNCHANGED scenarioVars

NavForward == historyForwards /\ UNCHANGED scenarioVars

NavReset == resetPlayboard /\ UNCHANGED scenarioVars

NextNavigate == NavStep \/ NavRecord \/ NavBackward \/ NavForward \/ NavReset

SpecNavigate == InitNavigate /\ [][NextNavigate]_vars

\* C11: historyForwards fails exactly when the cursor is at the last
\* record, or the ledger is empty, or the cursor equals the board's turn
\* counter, and then the cursor and the board are unchanged; otherwise it
\* moves the cursor forward by exactly one, shows that record on the board
\* and returns success.
C11_Forwards ==
    [][lastOp' = "historyForwards"
          => IF \/ gameHistory.turns = 0
                \/ gameHistory.currentTurn = gameHistory.turns - 1
                \/ gameHistory.currentTurn = turns
             THEN /\ ~lastRet'
                  /\ boardVars' = boardVars
                  /\ gameHistory' = gameHistory
             ELSE /\ lastRet'
                  /\ gameHistory'.currentTurn = gameHistory.currentTurn + 1
                  /\ gameHistory'.turns = gameHistory.turns
                  /\ gameHistory'.turnData = gameHistory.turnData
                  /\ AliveSet(cells') = RecordAlive(CursorRecord(gameHistory'))
                  /\ {i \in DOMAIN cells' : cells'[i].cellChanged}
                         = RecordChanged(CursorRecord(gameHistory'))]_vars

\* historyForwards has been refused only because the cursor equals the
\* board's turn counter: the ledger holds later records.
C11_WitnessRefused ==
    /\ lastOp = "historyForwards" /\ ~lastRet
    /\ gameHistory.turns >= 2
    /\ gameHistory.currentTurn < gameHistory.turns - 1
    /\ gameHistory.currentTurn = turns

\* historyForwards has moved the cursor forward onto a record that shows
\* living cells and differs from the record before it.
C11_Witness ==
    /\ lastOp = "historyForwards" /\ lastRet
    /\ gameHistory.turns >= 2
    /\ gameHistory.currentTurn >= 1
    /\ AliveSet(cells) # {}
    /\ CursorRecord(gameHistory) # gameHistory.turnData[gameHistory.currentTurn]

\* The cells that the last applyTurn killed: changed and not alive.
DiedSet(cs) == {i \in DOMAIN cs : cs[i].cellChanged /\ ~cs[i].isLiving}

\* The cells that the last applyTurn brought alive: changed and alive.
BornSet(cs) == {i \in DOMAIN cs : cs[i].cellChanged /\ cs[i].isLiving}

\* The record that the last successful addHistory stored.
NewRecord(h) == h.turnData[Len(h.turnData)]

\* The entries of a record are exactly those of the alive cells and of
\* the cells that died.
EntriesAreAliveAndDied(rec, cs) ==
    /\ rec.records = Cardinality(AliveSet(cs)) + Cardinality(DiedSet(cs))
    /\ \A i \in DOMAIN cs :
          (~cs[i].isLiving /\ ~cs[i].cellChanged) => \A k \in 1..rec.records : rec.index[k] # i

\* C13: a successful addHistory stores one record that holds, for every
\* cell in ascending index order and at most once, (BORN, index) if the
\* cell is changed and alive, (DEAD, index) if it is changed and not
\* alive, (STABLE, index) if it is unchanged and alive, and nothing
\* otherwise; the three counts add up to the number of entries; the
\* cursor points at the new record.
C13_RecordContents ==
    [][(lastOp' = "addHistory" /\ lastRet')
          => LET rec == NewRecord(gameHistory')
                 Entry(i, st) == \E k \in 1..rec.records : rec.index[k] = i /\ rec.state[k] = st
             IN /\ Len(rec.index) = rec.records /\ Len(rec.state) = rec.records
                /\ \A k \in 1..rec.records - 1 : rec.index[k] < rec.index[k + 1]
                /\ \A i \in DOMAIN cells :
                      /\ Entry(i, BORN) <=> (cells[i].cellChanged /\ cells[i].isLiving)
                      /\ Entry(i, DEAD) <=> (cells[i].cellChanged /\ ~cells[i].isLiving)
                      /\ Entry(i, STABLE) <=> (~cells[i].cellChanged /\ cells[i].isLiving)
                /\ rec.countBorn = Cardinality(BornSet(cells))
                /\ rec.countDeath = Cardinality(DiedSet(cells))
                /\ rec.countBorn + rec.countDeath + rec.countStable = rec.records
                /\ gameHistory'.currentTurn + 1 = Len(gameHistory'.turnData)
                /\ gameHistory'.turns = Len(gameHistory'.turnData)
                /\ gameHistory.turns # TURN_LIMIT
                      => gameHistory'.turnData = Append(gameHistory.turnData, rec)]_vars

\* A record with a BORN, a DEAD and a STABLE entry has been appended to a
\* ledger that already held a record.
C13_Witness ==
    /\ lastOp = "addHistory" /\ lastRet
    /\ gameHistory.turns >= 2
    /\ NewRecord(gameHistory).countBorn >= 1
    /\ NewRecord(gameHistory).countDeath >= 1
    /\ NewRecord(gameHistory).countStable >= 1

(***************************************************************************)
(* generateCellMapFromImage (cgol.c:766-944).  An image is its width, its  *)
(* height, its bits per pixel and the set of the offsets (x + y * w) of    *)
(* its black pixels; every other pixel is white.  The surface is read as   *)
(* an array of w * h 32-bit pixels.                                        *)
(***************************************************************************)
\* cgol.c:826-827: the image pixels per cell in x and y.
xPixelPerCell(img) == img.w \div cellsX

yPixelPerCell(img) == img.h \div cellsY

\* Mutation of imageRejected: the bits per pixel are not checked.
imageRejected_anyDepth(img) == xPixelPerCell(img) < 1 \/ yPixelPerCell(img) < 1

\* cgol.c:817-821 and 837-841: the image is refused.
imageRejected(img) ==
    img.bpp < 32 \/ xPixelPerCell(img) < 1 \/ yPixelPerCell(img) < 1

\* Mutation of tempOffset: the pixel (j, i) itself.
tempOffset_straight(j, i, imgWidth) == j + (i * imgWidth)

\* cgol.c:893: the offset of the pixel that is read for column j and row i.
tempOffset(j, i, imgWidth) == j + (i * imgWidth) - i

\* Mutation of scannedPairs: both loops run to their bound inclusive.
scannedPairs_inclusive(img, workingX, workingY) ==
    ((workingX - xPixelPerCell(img) + 1)..workingX)
        \X ((workingY - yPixelPerCell(img) + 1)..workingY)

\* cgol.c:891-892: the columns and rows that are scanned for one cell.
scannedPairs(img, workingX, workingY) ==
    ((workingX - xPixelPerCell(img))..(workingX - 1))
        \X ((workingY - yPixelPerCell(img))..(workingY - 1))

\* cgol.c:896-898: the value of one colour channel added up over the
\* scanned pixels; a black pixel adds 0 and a white one 255 in every channel.
channelValue(img, workingX, workingY) ==
    255 * Cardinality({p \in scannedPairs(img, workingX, workingY) :
                         tempOffset(p[1], p[2], img.w) \notin img.dark})

\* cgol.c:903-908: the three averages are added and compared.
belowThreshold(img, threshold, workingX, workingY) ==
    LET average == channelValue(img, workingX, workingY)
                      \div (xPixelPerCell(img) * yPixelPerCell(img))
    IN average + average + average <= threshold

\* Mutation of rowIndex: the first cell of the row.
rowIndex_full(row) == row * cellsX

\* cgol.c:877: the cell index at which a new row of the scan starts.
rowIndex(row) == (row * cellsX) - row

\* Mutation of scanBase: the scan starts from the board as it is.
scanBase_keep(cs) == cs

\* cgol.c:845: the scan starts from the reset board.
scanBase(cs) == resetCells(cs)

\* cgol.c:865-867: the scan before its first iteration.
scanStart(img, cs) ==
    [workingX |-> 0, workingY |-> yPixelPerCell(img), row |-> 0, index |-> 0,
     cells |-> scanBase(cs), livingCells |-> 0, read |-> {}, written |-> {}]

\* cgol.c:870-934: the process loop, from the scan state st to its end.
RECURSIVE scanImage(_, _, _)
scanImage(img, threshold, st) ==
    LET wrapped == st.workingX + xPixelPerCell(img) > img.w
        workingX == IF wrapped THEN xPixelPerCell(img) ELSE st.workingX + xPixelPerCell(img)
        workingY == IF wrapped THEN st.workingY + yPixelPerCell(img) ELSE st.workingY
        row == IF wrapped THEN st.row + 1 ELSE st.row
        index == IF wrapped THEN rowIndex(st.row + 1) ELSE st.index
    IN IF wrapped /\ workingY > img.h THEN st
       ELSE LET alive == belowThreshold(img, threshold, workingX, workingY)
                after ==
                    [workingX |-> workingX, workingY |-> workingY, row |-> row,
                     index |-> index + 1,
                     cells |-> IF alive
                               THEN [st.cells EXCEPT ![index] =
                                        [@ EXCEPT !.isLiving = TRUE, !.cellChanged = TRUE]]
                               ELSE st.cells,
                     livingCells |-> IF alive THEN UInt(st.livingCells + 1)
                                     ELSE st.livingCells,
                     read |-> st.read \cup
                              {tempOffset(p[1], p[2], img.w) :
                                 p \in scannedPairs(img, workingX, workingY)},
                     written |-> IF alive THEN st.written \cup {index} ELSE st.written]
            IN IF index + 1 >= cellCount - 1 THEN after
               ELSE scanImage(img, threshold, after)

\* The whole call for the image img and gameOptions->colorThreshold.
generateCellMapFromImage(img, threshold) ==
    /\ IF imageRejected(img)
       THEN /\ lastRet' = FALSE
            /\ image' = [img EXCEPT !.read = {}, !.replaced = AliveSet(cells)]
            /\ UNCHANGED <<cells, livingCells, turns>>
       ELSE LET done == scanImage(img, threshold, scanStart(img, cells))
            IN /\ lastRet' = TRUE
               /\ image' = [img EXCEPT !.read = done.read, !.replaced = AliveSet(cells)]
               /\ cells' = done.cells
               /\ livingCells' = done.livingCells
               /\ turns' = 0
    /\ lastOp' = "generateCellMapFromImage"
    /\ UNCHANGED <<cellsX, cellsY, isDirty, gameHistory, probe, randomLeft>>

(***************************************************************************)
(* Image ingestion: one image is dropped on a board with some contents.    *)
(***************************************************************************)
\* The widths and heights of the small images: one less than the board
\* dimension up to one more.
SmallSides == (MinDim - 1)..(MinDim + 1)

\* The small images: all white or all black, except for at most one pixel.
SmallImages ==
    UNION {UNION {{[w |-> w, h |-> h, bpp |-> bpp, dark |-> dark, read |-> {}, replaced |-> {}] :
                     dark \in {{}} \cup {{o} : o \in 0..(w * h) - 1}
                              \cup {(0..(w * h) - 1) \ {o} : o \in 0..(w * h) - 1}
                              \cup {0..(w * h) - 1}} :
                  bpp \in {24, 32}} :
           w \in SmallSides, h \in SmallSides}

\* The images with two by two pixels per cell: white, except for any of
\* the pixels of the first cell's block and of the pixel left of its
\* second row.
BlockImages ==
    LET w == 2 * MinDim
    IN {[w |-> w, h |-> w, bpp |-> 32, dark |-> dark, read |-> {}, replaced |-> {}] :
          dark \in SUBSET {0, 1, w - 1, w, w + 1}}

Images == SmallImages \cup BlockImages

\* The values of colorThreshold: 765 * 0, 765 * 0.5 and the default.
Thresholds == {0, 382, DefaultThreshold}

\* The contents of the board before the image is dropped.
BoardsBefore == {{}, LongRunPainted, CornerBlock(MinDim)}

InitImage ==
    /\ \E painted \in BoardsBefore : InitBoard(MinDim, painted)
    /\ \E t \in Thresholds : session = [NoSession EXCEPT !.colorThreshold = t]
    /\ gameHistory = EmptyHistory
    /\ lastOp = "init"
    /\ lastRet = TRUE
    /\ probe = NoProbe
    /\ randomLeft = 0
    /\ rt = NoScenario
    /\ image = NoImage

Ingest ==
    /\ image = NoImage
    /\ \E img \in Images : generateCellMapFromImage(img, session.colorThreshold)
    /\ UNCHANGED <<rt, session>>

NextImage == Ingest

SpecImage == InitImage /\ [][NextImage]_vars

\* An image has just been ingested successfully.
Ingested == lastOp = "generateCellMapFromImage" /\ lastRet

\* The pixels of the block of the cell at grid position (x, y).
BlockPixels(img, x, y) ==
    {px + (py * img.w) :
       px \in (x * xPixelPerCell(img))..((x * xPixelPerCell(img)) + xPixelPerCell(img) - 1),
       py \in (y * yPixelPerCell(img))..((y * yPixelPerCell(img)) + yPixelPerCell(img) - 1)}

\* The sum of the three channel averages over the block of the cell at
\* (x, y) is at most the threshold.
BlockBelowThreshold(img, threshold, x, y) ==
    LET average == (255 * Cardinality(BlockPixels(img, x, y) \ img.dark))
                      \div (xPixelPerCell(img) * yPixelPerCell(img))
    IN 3 * average <= threshold

\* C14: after a successful image ingestion every cell, the last cell of
\* the board included, is alive iff the sum of the three channel averages
\* over its block of pixels is at most colorThreshold.
C14_ImageMapping ==
    Ingested =>
       \A i \in DOMAIN cells :
          cells[i].isLiving
             <=> BlockBelowThreshold(image, session.colorThreshold, cells[i].cellX, cells[i].cellY)

\* C15: after every successful image ingestion livingCells equals the
\* number of cells with isLiving true.
C15_ImageLivingCells == Ingested => livingCells = Cardinality(AliveSet(cells))

C17_NoRemainderRead ==
    Ingested =>
       \A o \in image.read :
          /\ o % image.w < cellsX * xPixelPerCell(image)
          /\ o \div image.w < cellsY * yPixelPerCell(image)

\* The board of the same dimensions right after construction: every cell
\* keeps its position and is neither alive nor changed.
FreshCells(cs) == [i \in DOMAIN cs |-> [cs[i] EXCEPT !.isLiving = FALSE, !.cellChanged = FALSE]]

\* C18: for a fixed image and colorThreshold, an ingestion into a board
\* with any contents yields the alive set and the livingCells of the
\* ingestion into the freshly constructed board of the same dimensions.
C18_IngestionDeterminism ==
    Ingested =>
       LET fresh == scanImage(image, session.colorThreshold,
                              scanStart(image, FreshCells(cells)))
       IN /\ AliveSet(cells) = AliveSet(fresh.cells)
          /\ livingCells = fresh.livingCells

\* An image has been ingested into a board that had living cells which
\* the image does not show.
C18_Witness ==
    /\ Ingested
    /\ image.replaced # {}
    /\ image.replaced \ AliveSet(cells) # {}
    /\ AliveSet(cells) # {}

(***************************************************************************)
(* The session: main's event loop (cgol.c:1702-2124) over the board, the   *)
(* ledger and the loop flags.  One action per event and one for the loop   *)
(* iteration in which a turn is due.  The ghost variable lastOp has one     *)
(* value here: the properties of the session name the actions themselves.  *)
(***************************************************************************)
\* The cells that are clicked in paint mode and drawn by rand(): the first
\* MinDim - 2 cells of the first row.
SessionCells == 0..(MinDim - 3)

\* The images that are dropped: one with a dark first row of three pixels
\* and the same with 24 bits per pixel.
SessionImages ==
    {[w |-> MinDim, h |-> MinDim, bpp |-> bpp, dark |-> {0, 1, 2},
      read |-> {}, replaced |-> {}] : bpp \in {24, 32}}

\* cgol.c:1596: gameOptions.doRecordHistory starts as the value of the
\* info panel option, either value.
InitSession ==
    /\ InitBoard(MinDim, {})
    /\ \E record \in BOOLEAN : session = [NoSession EXCEPT !.doRecordHistory = record]
    /\ gameHistory = EmptyHistory
    /\ lastOp = "init"
    /\ lastRet = TRUE
    /\ probe = NoProbe
    /\ randomLeft = 0
    /\ rt = NoScenario
    /\ image = NoImage

\* Mutation of clearedIfRecording: the handlers forget the clearHistory call.
clearedIfRecording_never(h) == h

\* The ledger after the clearHistory call that the handlers of c, p, r and
\* of a dropped file make when history is recorded.
clearedIfRecording(h) == IF session.doRecordHistory THEN clearedHistory(h) ELSE h

\* cgol.c:1757-1775: the file with the image img is dropped on the window.
dropOf(img) ==
    /\ IF imageRejected(img)
       THEN UNCHANGED <<cells, livingCells, turns, gameHistory, session>>
       ELSE LET done == scanImage(img, session.colorThreshold, scanStart(img, cells))
            IN /\ cells' = done.cells
               /\ livingCells' = done.livingCells
               /\ turns' = 0
               /\ gameHistory' = clearedIfRecording(gameHistory)
               /\ session' = IF session.doRecordHistory
                             THEN [session EXCEPT !.historyCreated = FALSE,
                                                  !.isInHistory = FALSE,
                                                  !.doRender = TRUE]
                             ELSE [session EXCEPT !.doRender = TRUE]
    /\ lastOp' = "session"
    /\ lastRet' = TRUE
    /\ UNCHANGED <<cellsX, cellsY, isDirty, probe, randomLeft, rt, image>>

DropFile == \E img \in SessionImages : dropOf(img)

\* The unchanged variables of an event that touches the flags only.
flagsOnly == <<cellsX, cellsY, cells, livingCells, turns, isDirty, gameHistory,
               probe, randomLeft, rt, image>>

\* cgol.c:1778-1797: the comma key.
KeyComma ==
    /\ IF session.historyCreated /\ ~historyBackwardsFails(gameHistory)
       THEN /\ gameHistory' = [gameHistory EXCEPT !.currentTurn = previousTurn(gameHistory)]
            /\ cells' = displayedCells(gameHistory', cells)
            /\ session' = [session EXCEPT !.isInHistory = TRUE]
       ELSE UNCHANGED <<gameHistory, cells, session>>
    /\ lastOp' = "session"
    /\ lastRet' = TRUE
    /\ UNCHANGED <<cellsX, cellsY, livingCells, turns, isDirty, probe, randomLeft, rt, image>>

\* cgol.c:1798-1815: the period key.
KeyPeriod ==
    /\ IF session.historyCreated /\ ~historyForwardsFails(gameHistory, turns)
       THEN /\ gameHistory' = [gameHistory EXCEPT !.currentTurn = followingTurn(gameHistory)]
            /\ cells' = displayedCells(gameHistory', cells)
            /\ session' = [session EXCEPT !.isInHistory = TRUE]
       ELSE /\ session' = IF /\ session.historyCreated
                             /\ gameHistory.currentTurn = UInt(gameHistory.turns - 1)
                          THEN [session EXCEPT !.isInHistory = FALSE]
                          ELSE session
            /\ UNCHANGED <<gameHistory, cells>>
    /\ lastOp' = "session"
    /\ lastRet' = TRUE
    /\ UNCHANGED <<cellsX, cellsY, livingCells, turns, isDirty, probe, randomLeft, rt, image>>

\* cgol.c:1894-1926: the c key.
KeyC ==
    /\ gameHistory' = clearedIfRecording(gameHistory)
    /\ cells' = resetCells(cells)
    /\ turns' = 0
    /\ livingCells' = 0
    /\ session' = [session EXCEPT !.historyCreated = FALSE, !.isInHistory = FALSE,
                                  !.doRender = TRUE, !.doPause = TRUE]
    /\ lastOp' = "session"
    /\ lastRet' = TRUE
    /\ UNCHANGED <<cellsX, cellsY, isDirty, probe, randomLeft, rt, image>>

\* cgol.c:1927-1966: the p key.
KeyP ==
    /\ IF ~session.doPaint
       THEN /\ gameHistory' = clearedIfRecording(gameHistory)
            /\ session' = [session EXCEPT !.doPaint = TRUE, !.historyCreated = FALSE,
                                          !.isInHistory = FALSE]
       ELSE /\ session' = [session EXCEPT !.doPaint = FALSE,
                                          !.doRender = IF livingCells # 0 THEN TRUE ELSE @]
            /\ UNCHANGED gameHistory
    /\ lastOp' = "session"
    /\ lastRet' = TRUE
    /\ UNCHANGED <<cellsX, cellsY, cells, livingCells, turns, isDirty, probe, randomLeft,
                   rt, image>>

\* cgol.c:1967-1985: the h key.  The subtraction is one of unsigned ints.
KeyH ==
    /\ IF session.doRecordHistory
       THEN /\ turns' = IF session.isInHistory
                        THEN UInt(turns + (UINT_MAX + 1)
                                  - UInt(UInt(gameHistory.turns + UINT_MAX)
                                         + (UINT_MAX + 1) - gameHistory.currentTurn))
                        ELSE turns
            /\ session' = [session EXCEPT !.doRecordHistory = FALSE,
                                          !.historyCreated = FALSE, !.isInHistory = FALSE]
            /\ gameHistory' = clearedHistory(gameHistory)
       ELSE /\ session' = [session EXCEPT !.doRecordHistory = TRUE]
            /\ UNCHANGED <<turns, gameHistory>>
    /\ lastOp' = "session"
    /\ lastRet' = TRUE
    /\ UNCHANGED <<cellsX, cellsY, cells, livingCells, isDirty, probe, randomLeft, rt, image>>

\* The boards that initRandomBoard (cgol.c:614-644) leaves when its draws
\* fall on the cells of S.
seededCells(cs, S) ==
    [i \in DOMAIN cs |-> [cs[i] EXCEPT !.isLiving = i \in S, !.cellChanged = i \in S]]

\* cgol.c:1986-2003: the r key.
KeyR ==
    /\ gameHistory' = clearedIfRecording(gameHistory)
    /\ \E S \in {T \in SUBSET SessionCells : Cardinality(T) \in TargetCounts} :
          /\ cells' = seededCells(cells, S)
          /\ livingCells' = Cardinality(S)
    /\ turns' = 0
    /\ session' = [session EXCEPT !.doRender = TRUE, !.historyCreated = FALSE,
                                  !.isInHistory = FALSE]
    /\ lastOp' = "session"
    /\ lastRet' = TRUE
    /\ UNCHANGED <<cellsX, cellsY, isDirty, probe, randomLeft, rt, image>>

\* cgol.c:2024-2052: the space key.
KeySpace ==
    /\ session' = IF session.doPause /\ livingCells = 0 THEN session
                  ELSE IF session.doPaint
                       THEN [session EXCEPT !.doPaint = FALSE, !.doPause = FALSE]
                       ELSE [session EXCEPT !.doPause = ~@]
    /\ lastOp' = "session"
    /\ lastRet' = TRUE
    /\ UNCHANGED flagsOnly

\* cgol.c:1736-1743 and paintCell (cgol.c:658-670): a click of the left
\* button on the cell i in paint mode.  The clicks are made before the first
\* turn, on a board with no living cell outside SessionCells.
Click ==
    /\ session.doPaint
    /\ turns = 0
    /\ AliveSet(cells) \subseteq SessionCells
    /\ \E i \in SessionCells :
          IF ~cells[i].isLiving
          THEN /\ cells' = paintedCells(cells, {i})
               /\ livingCells' = UInt(livingCells + 1)
          ELSE UNCHANGED <<cells, livingCells>>
    /\ lastOp' = "session"
    /\ lastRet' = TRUE
    /\ UNCHANGED <<cellsX, cellsY, turns, isDirty, gameHistory, probe, randomLeft,
                   rt, session, image>>

\* cgol.c:2077-2121: the loop iteration in which a turn is due.  The values
\* are those of the statements in their order.
tickFirstRecord == session.doRecordHistory /\ ~session.isInHistory /\ ~session.historyCreated

\* cgol.c:2085-2087
tickHistory1 == IF tickFirstRecord THEN recordedHistory(gameHistory, turns, cells)
                ELSE gameHistory

tickCreated == IF tickFirstRecord THEN ~addHistoryFails(gameHistory, turns)
               ELSE session.historyCreated

\* cgol.c:2091
tickAtNow == tickHistory1.currentTurn = UInt(tickHistory1.turns + UINT_MAX)

\* cgol.c:2090-2099: isInHistory after the block.
tickInHistory ==
    IF session.doRecordHistory /\ session.isInHistory /\ tickAtNow THEN FALSE
    ELSE session.isInHistory

\* cgol.c:2097: historyForwards is called and moves the cursor.
tickForwards ==
    /\ session.doRecordHistory /\ session.isInHistory /\ ~tickAtNow
    /\ ~historyForwardsFails(tickHistory1, turns)

tickHistory2 == IF tickForwards
                THEN [tickHistory1 EXCEPT !.currentTurn = followingTurn(tickHistory1)]
                ELSE tickHistory1

tickCells2 == IF tickForwards THEN displayedCells(tickHistory2, cells) ELSE cells

\* cgol.c:2103-2105: applyTurn is called.
tickTurns == IF tickInHistory THEN turns ELSE nextTurns(turns, FALSE)

\* cgol.c:2108-2113: the second addHistory call is made and fails.
tickRecordFails ==
    ~tickInHistory /\ session.doRecordHistory /\ addHistoryFails(tickHistory2, tickTurns)

\* The guard of the block (cgol.c:2077) and of paint mode (cgol.c:2063).
tickDue == ~session.doPaint /\ session.doRender /\ ~session.doPause /\ livingCells # 0

\* The turn counter is followed for its first MaxTurns values and from
\* LateTurn to its wrap, the ledger for its first MaxTurns records, and the
\* counter of the living cells for MaxSeed values to either side of 0.
LateTurn == UINT_MAX - 1

tickFollowed ==
    /\ turns < MaxTurns \/ turns >= LateTurn
    /\ gameHistory.turns <= MaxTurns
    /\ livingCells <= MaxSeed \/ livingCells >= UINT_MAX - MaxSeed

Tick ==
    /\ tickDue
    /\ tickFollowed
    /\ cells' = IF tickInHistory THEN tickCells2 ELSE committedCells(tickCells2)
    /\ turns' = tickTurns
    /\ livingCells' = IF tickInHistory THEN livingCells
                      ELSE committedLivingCells(livingCells, cells')
    /\ isDirty' = IF tickInHistory THEN isDirty ELSE committedDirty(cells')
    /\ gameHistory' = IF ~tickInHistory /\ session.doRecordHistory
                      THEN recordedHistory(tickHistory2, turns', cells')
                      ELSE tickHistory2
    /\ session' = [session EXCEPT !.historyCreated = tickCreated,
                                  !.isInHistory = tickInHistory,
                                  !.doRecordHistory = IF tickRecordFails THEN FALSE ELSE @,
                                  !.doRender = IF isDirty' THEN @ ELSE FALSE]
    /\ lastOp' = "session"
    /\ lastRet' = TRUE
    /\ UNCHANGED <<cellsX, cellsY, probe, randomLeft, rt, image>>

\* The loop iterations that follow without an event while history is not
\* recorded (cgol.c:2077-2121 with doRecordHistory and isInHistory false):
\* applyTurn, until the counter is at LateTurn, no cell lives or no cell
\* changed.
RECURSIVE ranBoard(_)
ranBoard(b) ==
    IF b.turns >= LateTurn \/ b.livingCells = 0 \/ ~b.isDirty THEN b
    ELSE LET committed == committedCells(b.cells)
         IN ranBoard([cells |-> committed,
                      livingCells |-> committedLivingCells(b.livingCells, committed),
                      turns |-> nextTurns(b.turns, FALSE),
                      isDirty |-> committedDirty(committed)])

\* A run of the loop without events from a board before its first turn,
\* with nothing recorded.
Run ==
    /\ tickDue
    /\ ~session.doRecordHistory /\ ~session.isInHistory /\ ~session.historyCreated
    /\ gameHistory = EmptyHistory
    /\ turns = 0
    /\ LET first == committedCells(cells)
           b == ranBoard([cells |-> first,
                          livingCells |-> committedLivingCells(livingCells, first),
                          turns |-> nextTurns(turns, FALSE),
                          isDirty |-> committedDirty(first)])
       IN /\ cells' = b.cells
          /\ livingCells' = b.livingCells
          /\ turns' = b.turns
          /\ isDirty' = b.isDirty
          /\ session' = [session EXCEPT !.doRender = IF b.isDirty THEN @ ELSE FALSE]
    /\ lastOp' = "session"
    /\ lastRet' = TRUE
    /\ UNCHANGED <<cellsX, cellsY, gameHistory, probe, randomLeft, rt, image>>

NextSession ==
    \/ Tick
    \/ Run
    \/ Click
    \/ KeyP
    \/ KeySpace
    \/ KeyC
    \/ KeyR
    \/ KeyH
    \/ KeyComma
    \/ KeyPeriod
    \/ DropFile

SpecSession == InitSession /\ [][NextSession]_vars

\* The loop iteration applies a turn and records it.
TickRecords ==
    Tick /\ ~tickInHistory /\ session.doRecordHistory /\ session'.doRecordHistory

\* C12 as stated: every record that addHistory builds right after an
\* applyTurn has as many entries as cells are alive after the step plus
\* cells that died in it, hence at most livingCells before the step plus
\* livingCells after it; a dead unchanged cell never has an entry.
C12_DeltaSizeBound ==
    [][TickRecords
          => /\ EntriesAreAliveAndDied(NewRecord(gameHistory'), cells')
             /\ NewRecord(gameHistory').records <= livingCells + livingCells']_vars

\* The first part of C12 alone: the entry count is the number of the cells
\* alive after the step plus that of the cells that died in it, and a dead
\* unchanged cell has no entry.
C12_EntryCount ==
    [][TickRecords => EntriesAreAliveAndDied(NewRecord(gameHistory'), cells')]_vars

\* C19 as stated, its first part: every transition of recording from
\* enabled to disabled clears the ledger.
C19_DisableClears ==
    [][(session.doRecordHistory /\ ~session'.doRecordHistory)
          => gameHistory' = EmptyHistory]_vars

\* C19 as stated, its second part: in every reachable state of the session
\* in which doRecordHistory is false the ledger has no records and its
\* cursor is 0.
C19_DisabledLedgerEmpty ==
    ~session.doRecordHistory => (gameHistory.turns = 0 /\ gameHistory.currentTurn = 0)

\* The events of C20: c, r, p into paint mode, a file whose image is taken.
KeyPEnters == KeyP /\ ~session.doPaint

DropAccepted == \E img \in SessionImages : ~imageRejected(img) /\ dropOf(img)

DiscardEvent == KeyC \/ KeyR \/ KeyPEnters \/ DropAccepted

\* C20 as stated: right after the board is reset, re-seeded, painting mode
\* is entered or an image is ingested successfully, the ledger has no
\* records and its cursor is 0.
C20_DiscardClearsLedger ==
    [][DiscardEvent => (gameHistory'.turns = 0 /\ gameHistory'.currentTurn = 0)]_vars

\* The consequence that C20 draws: right after such an event the comma key
\* cannot replay a record.
C20_NoReplayAfterDiscard ==
    [][DiscardEvent => ~(session'.historyCreated /\ ~historyBackwardsFails(gameHistory'))]_vars

(***************************************************************************)
(* The step-then-record loop with recording enabled from the first turn    *)
(* (cgol.c:2082-2114): the first record, then applyTurn and addHistory in   *)
(* turn until no cell lives, no cell changed or addHistory fails.  The      *)
(* phase of rt tells whether the ledger has been cleared at its capacity.   *)
(***************************************************************************)
\* The boards of the loop: a row of three cells at each place of the first
\* row (oscillators), and at least MaxSeed cells painted on the first row.
LoopPaintedSets ==
    {k..(k + 2) : k \in 0..(MinDim - 3)}
        \cup {S \in RowPaintedSets : Cardinality(S) >= MaxSeed}

InitCapacity ==
    /\ \E painted \in LoopPaintedSets : InitBoard(MinDim, painted)
    /\ gameHistory = EmptyHistory
    /\ lastOp = "init"
    /\ lastRet = TRUE
    /\ probe = NoProbe
    /\ randomLeft = 0
    /\ rt = NoScenario
    /\ session = [NoSession EXCEPT !.doRecordHistory = TRUE, !.doPause = FALSE]
    /\ image = NoImage

\* cgol.c:2085-2087: the first record, before the first turn.
LoopFirstRecord ==
    /\ lastOp = "init"
    /\ livingCells # 0
    /\ addHistory
    /\ session' = [session EXCEPT !.historyCreated = lastRet']
    /\ UNCHANGED <<rt, image>>

\* cgol.c:2077 and 2103-2105: a turn is due and applied.
LoopStep ==
    /\ lastOp = "addHistory"
    /\ session.doRecordHistory /\ session.doRender /\ livingCells # 0
    /\ applyTurn(FALSE)
    /\ UNCHANGED scenarioVars

\* cgol.c:2108-2120: the turn is recorded; recording is switched off when
\* addHistory fails, rendering when no cell changed.
LoopRecord ==
    /\ lastOp = "applyTurn"
    /\ addHistory
    /\ session' = [session EXCEPT !.doRecordHistory = lastRet',
                                  !.doRender = isDirty]
    /\ rt' = IF gameHistory.turns = TURN_LIMIT /\ lastRet'
             THEN [rt EXCEPT !.phase = "cleared"] ELSE rt
    /\ UNCHANGED image

NextCapacity == LoopFirstRecord \/ LoopStep \/ LoopRecord

SpecCapacity == InitCapacity /\ [][NextCapacity]_vars

\* C21 as stated: when the ledger reaches its maximum turn count it is
\* cleared and recording continues: the addHistory call that clears and
\* every addHistory call after each later applyTurn succeed, and recording
\* stays enabled.
C21_CapacityNotFatal ==
    [][(lastOp' = "addHistory" /\ (gameHistory.turns = TURN_LIMIT \/ rt.phase = "cleared"))
          => (lastRet' /\ session'.doRecordHistory)]_vars

\* C29: when addHistory is called with TURN_LIMIT records in the ledger and
\* the ordering guard passes, the prior records are discarded and the new
\* record is appended: the ledger holds exactly that one record, the
\* cursor is 0 and the call returns success.
C29_CapacityClearsThenAppends ==
    [][(/\ lastOp' = "addHistory"
        /\ gameHistory.turns = TURN_LIMIT
        /\ ~addHistoryFails(gameHistory, turns))
          => /\ lastRet'
             /\ gameHistory'.turns = 1
             /\ gameHistory'.currentTurn = 0
             /\ gameHistory'.turnData = <<turnRecord(cells)>>]_vars

\* The ledger has been cleared at its capacity and holds the one record of
\* the board at turn TURN_LIMIT.
C29_Witness ==
    /\ lastOp = "addHistory" /\ lastRet
    /\ rt.phase = "cleared"
    /\ turns = TURN_LIMIT
    /\ gameHistory.turns = 1
    /\ NewRecord(gameHistory).records >= 1

(***************************************************************************)
(* The turn counter: applyTurn called with isInHistory false and true on   *)
(* the boards of the loop, past the wrap of the counter.  rt.rounds counts *)
(* the calls with isInHistory false.                                       *)
(***************************************************************************)
InitTurns ==
    /\ \E painted \in LoopPaintedSets : InitBoard(MinDim, painted)
    /\ gameHistory = EmptyHistory
    /\ lastOp = "init"
    /\ lastRet = TRUE
    /\ probe = NoProbe
    /\ randomLeft = 0
    /\ rt = NoScenario
    /\ session = NoSession
    /\ image = NoImage

\* applyTurn(gameBoard, false), followed for MaxTurns calls past the wrap.
TurnLive ==
    /\ rt.rounds <= TURN_LIMIT + MaxTurns
    /\ applyTurn(FALSE)
    /\ rt' = [rt EXCEPT !.rounds = @ + 1]
    /\ UNCHANGED <<session, image>>

\* applyTurn(gameBoard, true)
TurnReplay == applyTurn(TRUE) /\ UNCHANGED scenarioVars

NextTurns == TurnLive \/ TurnReplay

SpecTurns == InitTurns /\ [][NextTurns]_vars

\* C22: an applyTurn that is not a history-replay step increases turns by
\* one, or sets it to 0 when the increment would exceed TURN_LIMIT; an
\* applyTurn called as a history-replay step applies the rule and leaves
\* turns unchanged; turns never exceeds TURN_LIMIT.
C22_TurnCounter ==
    [][/\ TurnLive => turns' = (IF turns + 1 > TURN_LIMIT THEN 0 ELSE turns + 1)
       /\ TurnReplay => (turns' = turns /\ cells' = committedCells(cells))
       /\ turns' <= TURN_LIMIT]_vars

\* The counter has gone from TURN_LIMIT to 0 on a board whose living cells
\* are not the painted row 0..2.
C22_Witness ==
    /\ lastOp = "applyTurn"
    /\ rt.rounds = TURN_LIMIT + 1
    /\ turns = 0
    /\ AliveSet(cells) # {}
    /\ AliveSet(cells) # 0..2

\* The cells for which the record rec has an entry with the state st.
EntryCells(rec, st) == {rec.index[k] : k \in {j \in 1..rec.records : rec.state[j] = st}}

\* The cells of cs with the given isLiving and cellChanged values.
CellsWith(cs, living, changed) ==
    {i \in DOMAIN cs : cs[i].isLiving = living /\ cs[i].cellChanged = changed}

\* The grid coordinates of the cells.
Coordinates(cs) == [i \in DOMAIN cs |-> <<cs[i].cellX, cs[i].cellY>>]

\* C23: a replay (historyBackwards, historyForwards, and the
\* historyDisplayTurn they call) changes only the isLiving and cellChanged
\* fields of the cells and the cursor: the board's turns, the ledger's
\* record count and every record are unchanged; a cell named in the record
\* at the cursor is alive and unchanged for STABLE, not alive and changed
\* for DEAD, alive and changed for BORN, and every other cell is dead and
\* unchanged.
C23_ReplayOverwrites ==
    [][(lastOp' \in {"historyBackwards", "historyForwards"} /\ lastRet')
          => LET rec == CursorRecord(gameHistory')
             IN /\ turns' = turns /\ livingCells' = livingCells /\ isDirty' = isDirty
                /\ cellsX' = cellsX /\ cellsY' = cellsY
                /\ gameHistory'.turns = gameHistory.turns
                /\ gameHistory'.turnData = gameHistory.turnData
                /\ gameHistory'.currentTurn # gameHistory.currentTurn
                /\ Coordinates(cells') = Coordinates(cells)
                /\ CellsWith(cells', TRUE, FALSE) = EntryCells(rec, STABLE)
                /\ CellsWith(cells', FALSE, TRUE) = EntryCells(rec, DEAD)
                /\ CellsWith(cells', TRUE, TRUE) = EntryCells(rec, BORN)]_vars

\* historyBackwards has replayed a record with a STABLE, a DEAD and a BORN
\* entry onto a board that showed other cells.
C23_Witness ==
    /\ lastOp = "historyBackwards" /\ lastRet
    /\ CursorRecord(gameHistory).countStable >= 1
    /\ CursorRecord(gameHistory).countDeath >= 1
    /\ CursorRecord(gameHistory).countBorn >= 1
    /\ gameHistory.currentTurn + 1 < gameHistory.turns
    /\ RecordAlive(CursorRecord(gameHistory)) # RecordAlive(NewRecord(gameHistory))

\* C24: clearHistory discards all records and sets the record count and
\* the cursor to 0; on an empty ledger it returns false and changes
\* nothing, so a second clearHistory leaves the state of the first.
C24_ClearHistory ==
    [][lastOp' = "clearHistory"
          => /\ gameHistory' = EmptyHistory
             /\ lastRet' = (gameHistory.turns # 0)
             /\ gameHistory.turns = 0 => gameHistory' = gameHistory
             /\ clearedHistory(gameHistory') = gameHistory'
             /\ ~clearHistoryResult(gameHistory')
             /\ boardVars' = boardVars]_vars

\* clearHistory has discarded the records (it returned true) of a board
\* with living cells after its first turn.
C24_Witness ==
    /\ lastOp = "clearHistory" /\ lastRet
    /\ gameHistory = EmptyHistory
    /\ turns >= 1
    /\ AliveSet(cells) # {}

\* C30: in every reachable state the cursor is within 0..count - 1 when the
\* ledger holds records and 0 when it is empty, after any sequence of
\* addHistory, historyBackwards, historyForwards and clearHistory, failed
\* calls included.
C30_CursorRange ==
    /\ Len(gameHistory.turnData) = gameHistory.turns
    /\ IF gameHistory.turns = 0
       THEN gameHistory.currentTurn = 0
       ELSE gameHistory.currentTurn \in 0..(gameHistory.turns - 1)

\* A historyForwards call has failed with the cursor on the last of at
\* least two records, after a navigation away from it.
C30_Witness ==
    /\ lastOp = "historyForwards" /\ ~lastRet
    /\ gameHistory.turns >= 2
    /\ gameHistory.currentTurn = gameHistory.turns - 1
    /\ AliveSet(cells) = RecordAlive(CursorRecord(gameHistory))
    /\ livingCells # Cardinality(AliveSet(cells))

(***************************************************************************)
(* C25-C28: resetPlayboard and the random seeding.                         *)
(***************************************************************************)
\* The cells whose cellChanged flag is set.
ChangedSet(cs) == {i \in DOMAIN cs : cs[i].cellChanged}

\* C25: resetPlayboard sets every cell to dead and unchanged and sets turns
\* and livingCells to 0; cellsX, cellsY, cellCount and the grid coordinates
\* of every cell stay as they were.
C25_ResetPlayboard ==
    [][lastOp' = "resetPlayboard" =>
          /\ AliveSet(cells') = {}
          /\ ChangedSet(cells') = {}
          /\ turns' = 0
          /\ livingCells' = 0
          /\ cellsX' = cellsX /\ cellsY' = cellsY
          /\ DOMAIN cells' = 0..(cellCount - 1)
          /\ Coordinates(cells') = Coordinates(cells)]_vars

\* resetPlayboard has acted: no cell is alive or changed and both counters
\* are 0.
C25_Witness ==
    /\ lastOp = "resetPlayboard"
    /\ AliveSet(cells) = {} /\ ChangedSet(cells) = {}
    /\ turns = 0 /\ livingCells = 0

(***************************************************************************)
(* The seeding alone, with every target count of the board.  The cells of  *)
(* a board are interchangeable for the loop, so the draws are taken in     *)
(* index order: a draw is the lowest dead cell or any living cell.         *)
(* rt.rounds keeps the target count k of the running or last call.         *)
(***************************************************************************)
InitSeed ==
    /\ \E n \in MinDim..MaxDim : InitBoard(n, {})
    /\ gameHistory = EmptyHistory
    /\ lastOp = "init"
    /\ lastRet = TRUE
    /\ probe = NoProbe
    /\ randomLeft = 0
    /\ rt = NoScenario
    /\ session = NoSession
    /\ image = NoImage

SeedCall ==
    /\ initRandomBoard_call(AllTargetCounts)
    /\ rt' = [rt EXCEPT !.phase = "seeding", !.rounds = randomLeft']
    /\ UNCHANGED <<session, image>>

SeedLoop ==
    /\ initRandomBoard_draw
    /\ AliveSet(cells') = 0..(Cardinality(AliveSet(cells')) - 1)
    /\ UNCHANGED scenarioVars

NextSeed == SeedCall \/ SeedLoop

SpecSeed == InitSeed /\ [][NextSeed]_vars

\* rand() is fair: the loop does not draw living cells forever while a dead
\* cell can be drawn.
SpecSeedFair == SpecSeed /\ WF_vars(SeedLoop)

\* The dead cells that a draw can yield.
DeadDrawable == drawRange \ AliveSet(cells)

\* C26: during and after initRandomBoard with target count k, turns is 0,
\* livingCells is the number of living cells, and the living cells and the
\* cells still to bring alive add up to k, so exactly k cells are alive when
\* the loop ends; a draw brings alive one dead cell and takes one off the
\* remaining target, or (the cell was alive) changes nothing.
C26_SeedingCount ==
    [][lastOp' = "initRandomBoard" =>
          /\ turns' = 0
          /\ livingCells' = Cardinality(AliveSet(cells'))
          /\ Cardinality(AliveSet(cells')) + randomLeft' = rt'.rounds
          /\ ChangedSet(cells') = AliveSet(cells')
          /\ randomLeft > 0 =>
                \/ /\ randomLeft' = randomLeft - 1
                   /\ \E i \in DeadDrawable : AliveSet(cells') = AliveSet(cells) \cup {i}
                \/ UNCHANGED <<randomLeft, cells, livingCells>>]_vars

\* initRandomBoard has ended with a target count k of at least 10: k cells
\* are alive.
C26_Witness ==
    /\ lastOp = "initRandomBoard" /\ randomLeft = 0
    /\ rt.rounds >= 10
    /\ Cardinality(AliveSet(cells)) = rt.rounds
    /\ livingCells = rt.rounds

C28_DrawsWholeBoard ==
    lastOp = "initRandomBoard" => \A i \in 0..(cellCount - 1) : i \in drawRange

\* The last cell of the board is dead in every state of a seeding.
C28_LastCellNeverSeeded ==
    lastOp = "initRandomBoard" => ~cells[cellCount - 1].isLiving

(***************************************************************************)
(* C31-C32: the dirty flag and the cellChanged flags of a step.            *)
(***************************************************************************)
\* The cells whose isLiving differs between two cell arrays.
Flipped(before, after) ==
    (AliveSet(before) \ AliveSet(after)) \cup (AliveSet(after) \ AliveSet(before))

\* C31: after every applyTurn, isDirty is true iff at least one cell's
\* isLiving differs from its value before the step; a step on a fixed point
\* of the rule leaves isDirty false.
C31_DirtyIffChanged ==
    [][lastOp' = "applyTurn" => (isDirty' <=> Flipped(cells, cells') # {})]_vars

\* A step has been applied to a fixed point with living cells: the board is
\* not dirty and no cell is marked as changed.
C31_Witness ==
    /\ lastOp = "applyTurn"
    /\ ~isDirty
    /\ Cardinality(AliveSet(cells)) >= 4
    /\ ChangedSet(cells) = {}

\* C32: after every applyTurn the cells with cellChanged set are exactly the
\* cells whose isLiving differs from its value before the step, whatever the
\* flags were before (left by a step or by a seeding).
C32_ChangedIffFlipped ==
    [][lastOp' = "applyTurn" => ChangedSet(cells') = Flipped(cells, cells')]_vars

\* The first step of a painted or seeded board: some living cells survived
\* it and are not marked as changed, other cells flipped and are marked.
C32_Witness ==
    /\ lastOp = "applyTurn"
    /\ turns = 1
    /\ AliveSet(cells) \ ChangedSet(cells) # {}
    /\ ChangedSet(cells) # {}

(***************************************************************************)
(* C33: array positions, stored indexes and neighbour lookups.             *)
(***************************************************************************)
\* The last record of a ledger.
LastRecord(h) == h.turnData[h.turns]

\* The indexes stored in a record.
RecordIndexes(rec) == {rec.index[k] : k \in 1..rec.records}

\* C33: on a board with cellsX = cellsY the index that addHistory stores for
\* a cell is the array position of the cell, and the neighbour lookup of a
\* cell in a direction addresses the cell whose coordinates are the wrapped
\* coordinates of the lookup; so a new record names exactly the living and
\* the changed cells of the board, and a replay shows exactly the cells of
\* the record at the cursor.
C33_IndexConsistency ==
    cellsX = cellsY =>
        /\ \A i \in DOMAIN cells : recordedIndex(cells[i]) = i
        /\ \A i \in DOMAIN cells, direction \in 0..7 :
              LET c == cells[neighbourOffset(cells[i], direction)]
              IN /\ c.cellX = limitX(cells[i], direction)
                 /\ c.cellY = limitY(cells[i], direction)
        /\ (lastOp = "addHistory" /\ lastRet) =>
              RecordIndexes(LastRecord(gameHistory)) = AliveSet(cells) \cup ChangedSet(cells)
        /\ (lastOp \in {"historyBackwards", "historyForwards"} /\ lastRet) =>
              /\ AliveSet(cells) = RecordAlive(CursorRecord(gameHistory))
              /\ ChangedSet(cells) = RecordChanged(CursorRecord(gameHistory))

\* A replay has shown a record whose living cells lie in more than one row
\* and in more than one column.
C33_Witness ==
    /\ lastOp = "historyBackwards" /\ lastRet
    /\ \E i, j \in AliveSet(cells) :
          cells[i].cellX # cells[j].cellX /\ cells[i].cellY # cells[j].cellY

(***************************************************************************)
(* C34-C37: the session's counters, ledger and replay.                     *)
(***************************************************************************)
\* The loop iteration calls applyTurn (cgol.c:2103-2105).
TickSteps == Tick /\ ~tickInHistory

\* C34 as stated: over any sequence of session operations the number of
\* cells that die in a step never exceeds livingCells at the start of that
\* step, so applyTurn never decrements livingCells when it is 0.
C34_NoUnderflow ==
    [][TickSteps => Cardinality(committedDeaths(cells')) <= livingCells]_vars

\* The loop iteration finds a past record displayed: the session navigates
\* in history and the cursor is not at the last record.
TickOnPast ==
    /\ Tick
    /\ session.isInHistory
    /\ gameHistory.turns # 0
    /\ gameHistory.currentTurn # gameHistory.turns - 1

\* C35, first part: whenever the loop calls applyTurn and the ledger is not
\* empty, the cursor is at the last record and the living cells of the
\* board are those of the last record.
C35_StepsOnLastRecord ==
    [][(TickSteps /\ tickHistory2.turns # 0)
          => /\ tickHistory2.currentTurn = tickHistory2.turns - 1
             /\ AliveSet(tickCells2) = RecordAlive(LastRecord(tickHistory2))]_vars

\* C35, second part: while a past record is displayed a loop iteration only
\* moves the cursor forward by one record and shows that record.
C35_PastTickMovesCursor ==
    [][TickOnPast
          => /\ gameHistory' = [gameHistory EXCEPT !.currentTurn = @ + 1]
             /\ AliveSet(cells') = RecordAlive(CursorRecord(gameHistory'))
             /\ turns' = turns /\ livingCells' = livingCells]_vars

\* The loop iteration in which the turn counter wraps (cgol.c:605-608).
TickWraps == TickSteps /\ turns = TURN_LIMIT

\* The session for as long as the turn counter has not wrapped.
NextEarly == NextSession /\ ~TickWraps

SpecSessionEarly == InitSession /\ [][NextEarly]_vars

\* C36: as long as the turn counter has not wrapped, in every state of the
\* session the ledger holds at most turns + 1 records, and no loop
\* iteration that applies a step with recording enabled switches recording
\* off: its addHistory call appends a record.
C36_LedgerWithinTurns ==
    /\ [](gameHistory.turns <= turns + 1)
    /\ [][(TickSteps /\ session.doRecordHistory)
             => (session'.doRecordHistory /\ gameHistory'.turns = tickHistory2.turns + 1)]_vars

\* Recording is enabled and the ledger holds turns + 1 records, after at
\* least two recorded steps.
C36_Witness ==
    /\ session.doRecordHistory /\ session.historyCreated
    /\ turns >= 2
    /\ gameHistory.turns = turns + 1

\* The h key switches recording off (cgol.c:1971).
KeyHOff == KeyH /\ session.doRecordHistory

\* The records after the cursor: (record count - 1) - cursor.
RecordsAhead(h) == (h.turns - 1) - h.currentTurn

\* C37 as stated: the h key that switches recording off while a past record
\* is displayed decreases the turn counter by exactly (record count - 1 -
\* cursor), which is not more than the counter, so nothing underflows;
\* while the session does not navigate in history it leaves the counter
\* unchanged.
C37_TurnAdjustment ==
    [][KeyHOff =>
          IF session.isInHistory
          THEN /\ RecordsAhead(gameHistory) \in 0..turns
               /\ turns' = turns - RecordsAhead(gameHistory)
          ELSE turns' = turns]_vars

(***************************************************************************)
(* C38: the cell indexes and pixel offsets of an ingestion.  The images    *)
(* are all black or all white, of every width and height from the board    *)
(* dimension to twice the board dimension.                                 *)
(***************************************************************************)
PlainImages ==
    UNION {{[w |-> w, h |-> h, bpp |-> 32, dark |-> dark, read |-> {}, replaced |-> {}] :
               dark \in {{}, 0..(w * h) - 1}} :
           w \in MinDim..(2 * MinDim), h \in MinDim..(2 * MinDim)}

IngestPlain ==
    /\ image = NoImage
    /\ \E img \in PlainImages \cup Images :
          generateCellMapFromImage(img, session.colorThreshold)
    /\ UNCHANGED <<rt, session>>

NextImageBounds == IngestPlain

SpecImageBounds == InitImage /\ [][NextImageBounds]_vars

\* C38: an ingestion that is not refused writes only cells with an index
\* below cellCount and reads only pixels with an offset below
\* imgWidth * imgHeight, also when the width or the height of the image is
\* not a multiple of the board dimension.
C38_IngestionInBounds ==
    Ingested =>
       LET done == scanImage(image, session.colorThreshold, scanStart(image, cells))
       IN /\ done.written \subseteq 0..(cellCount - 1)
          /\ done.written = AliveSet(cells)
          /\ done.read = image.read
          /\ image.read \subseteq 0..((image.w * image.h) - 1)

\* A black image whose width and height are no multiples of the board
\* dimension, with more rows of blocks than the board has rows, has been
\* ingested: the scan has come to the last cell but one.
C38_Witness ==
    /\ Ingested
    /\ image.w % cellsX # 0 /\ image.h % cellsY # 0
    /\ image.h \div yPixelPerCell(image) > cellsY
    /\ (cellCount - 2) \in AliveSet(cells)

====
